---- MODULE Spec2Model ----
(***************************************************************************)
(* Model of memflex's external process access (OwnedProcess): the lazy     *)
(* pattern scan find_pattern, the signature synthesis create_pattern and    *)
(* the multilevel pointer resolver resolve_multilevel, all running over a   *)
(* foreign address space reached through ReadProcessMemory.                 *)
(***************************************************************************)
EXTENDS Integers, Sequences, FiniteSets, TLC

(* ------------------------------ bounds -------------------------------- *)
\* Largest number of mapped bytes of the foreign address space in a scan.
ScanMemSize == 4
\* Largest byte value of the modelled byte alphabet 0..MaxByte.
MaxByte == 1
\* Longest pattern handed to find_pattern.
MaxPatLen == 2
\* Largest start address of a scanned range.
MaxStart == 1
\* Largest len of a scanned range.
MaxLen == 3
\* Calls of next() made after the sequence has ended.
MaxExtraCalls == 1
\* Largest number of mapped bytes when a signature is synthesized.
MemSize == 5
\* Largest target address handed to create_pattern.
MaxTarget == 2
\* Largest byte budget max = Some(m) handed to create_pattern.
MaxBudget == 4
\* Modelled width of usize, in bytes.
WordSize == 2
\* Largest base address and largest offset handed to resolve_multilevel.
MaxOffset == 1
\* Longest offset list handed to resolve_multilevel.
MaxChain == 2
\* Mapped bytes of the memories read_str runs over.
StrMemSize == 8
\* Longest text handed to write_str.
MaxText == 2
\* Number of values of a byte (u8).
ByteRadix == 256
\* BUF_SIZE of read_str: the bytes of one chunk.
BUF_SIZE == 4
\* size_of::<i32>(): the type the literal 0 handed to write takes.
I32Size == 4

Bytes == 0..MaxByte

(* ------------------------- foreign memory ----------------------------- *)
VARIABLES
    mem,      \* the mapped bytes of the foreign process: address a holds mem[a+1]
    reads,    \* history: every ReadProcessMemory call issued, in order
    it,       \* the iterator returned by find_pattern (closure state + Fuse)
    yielded,  \* history: the addresses the iterator returned, in order
    calls,    \* history: the result of every next() call, in order
    cp,       \* the running create_pattern call: arguments, locals, position
    rm,       \* the running resolve_multilevel call: arguments, locals, position
    mt,       \* the running DynPattern::matches call: arguments and result
    rs,       \* the running read_str call: arguments, locals, position
    ws        \* the running write_str call: arguments, locals, position

vars == <<mem, reads, it, yielded, calls, cp, rm, mt, rs, ws>>

\* Every content of a mapped region [0, n), n <= size; any address at or
\* beyond n is unmapped.
Memories(size) == UNION {[1..n -> Bytes] : n \in 0..size}

\* ReadProcessMemory(hnd, addr, buf, size, _): nonzero (success) only when the
\* whole area [addr, addr+size) is accessible.
ReadProcessMemory(m, addr, size) ==
    IF addr + size <= Len(m)
    THEN [ok |-> TRUE,  bytes |-> [i \in 1..size |-> m[addr + i]]]
    ELSE [ok |-> FALSE, bytes |-> <<>>]

\* OwnedProcess::read_buf: Err when ReadProcessMemory returns zero.
read_buf(m, address, n) == ReadProcessMemory(m, address, n)

\* One entry of the read history.
ReadRec(address, n, ok) == [addr |-> address, size |-> n, ok |-> ok]

(* ----------------------------- patterns ------------------------------- *)
Exact(b) == [tag |-> "Exact", byte |-> b]
Wildcard == [tag |-> "Wildcard", byte |-> 0]
ByteMatchSet == {Exact(b) : b \in Bytes} \cup {Wildcard}

\* ByteMatch::matches
ByteMatch_matches(a, b) ==
    IF a.tag = "Wildcard" THEN TRUE ELSE a.byte = b

Min(a, b) == IF a <= b THEN a ELSE b

\* DynPattern::matches, but with any() in place of all().
DynPattern_matches_any(p, data) ==
    \E i \in 1..Min(Len(p), Len(data)) : ByteMatch_matches(p[i], data[i])

\* DynPattern::matches: zip stops at the shorter of pattern and data.
DynPattern_matches(p, data) ==
    \A i \in 1..Min(Len(p), Len(data)) : ByteMatch_matches(p[i], data[i])

\* Matcher for DynPattern::size
DynPattern_size(p) == Len(p)

\* impl From<&[u8]> for DynPattern
DynPattern_from_slice(slice) == [i \in 1..Len(slice) |-> Exact(slice[i])]

\* Matcher for a byte slice (&[u8]): every byte is compared exactly.
Slice_matches(s, data) ==
    \A i \in 1..Min(Len(s), Len(data)) : s[i] = data[i]

\* A Matcher is either a DynPattern or a byte slice.
DynMatcher(p) == [kind |-> "dyn", elems |-> p]
SliceMatcher(s) == [kind |-> "slice", elems |-> s]

Matcher_matches(pat, data) ==
    IF pat.kind = "dyn" THEN DynPattern_matches(pat.elems, data)
    ELSE Slice_matches(pat.elems, data)

Matcher_size(pat) == Len(pat.elems)

DynPatterns == UNION {[1..n -> ByteMatchSet] : n \in 1..MaxPatLen}

(* --------------------------- find_pattern ----------------------------- *)
\* find_pattern(pat, start, len): the iterator before its first call.
find_pattern(pat, start, len) ==
    [pat |-> pat, start |-> start, len |-> len, offset |-> 0, fused |-> FALSE]

None == [some |-> FALSE, val |-> 0]
Some(v) == [some |-> TRUE, val |-> v]

\* Closure, but a match advances the cursor by the pattern size, so that
\* overlapping occurrences are stepped over.
RECURSIVE Closure_stride(_, _, _, _, _, _)
Closure_stride(m, pat, start, len, offset, log) ==
    LET r == read_buf(m, start + offset, Matcher_size(pat))
        log1 == Append(log, ReadRec(start + offset, Matcher_size(pat), r.ok))
    IN  IF ~r.ok
        THEN [offset |-> offset, log |-> log1, ret |-> None]
        ELSE IF Matcher_matches(pat, r.bytes)
        THEN [offset |-> offset + Matcher_size(pat), log |-> log1, ret |-> Some(start + offset)]
        ELSE IF offset + 1 >= len
        THEN [offset |-> offset + 1, log |-> log1, ret |-> None]
        ELSE Closure_stride(m, pat, start, len, offset + 1, log1)

\* Closure, but an unreadable offset is stepped over instead of ending the
\* sequence.
RECURSIVE Closure_skip_unreadable(_, _, _, _, _, _)
Closure_skip_unreadable(m, pat, start, len, offset, log) ==
    LET r == read_buf(m, start + offset, Matcher_size(pat))
        log1 == Append(log, ReadRec(start + offset, Matcher_size(pat), r.ok))
    IN  IF r.ok /\ Matcher_matches(pat, r.bytes)
        THEN [offset |-> offset + 1, log |-> log1, ret |-> Some(start + (offset + 1) - 1)]
        ELSE IF offset + 1 >= len
        THEN [offset |-> offset + 1, log |-> log1, ret |-> None]
        ELSE Closure_skip_unreadable(m, pat, start, len, offset + 1, log1)

\* Closure, but on a match the window after the match is read ahead before
\* the match is returned.
RECURSIVE Closure_prefetch(_, _, _, _, _, _)
Closure_prefetch(m, pat, start, len, offset, log) ==
    LET r == read_buf(m, start + offset, Matcher_size(pat))
        log1 == Append(log, ReadRec(start + offset, Matcher_size(pat), r.ok))
        ahead == read_buf(m, start + offset + 1, Matcher_size(pat))
    IN  IF ~r.ok
        THEN [offset |-> offset, log |-> log1, ret |-> None]
        ELSE IF Matcher_matches(pat, r.bytes)
        THEN [offset |-> offset + 1,
              log |-> Append(log1, ReadRec(start + offset + 1, Matcher_size(pat), ahead.ok)),
              ret |-> Some(start + (offset + 1) - 1)]
        ELSE IF offset + 1 >= len
        THEN [offset |-> offset + 1, log |-> log1, ret |-> None]
        ELSE Closure_prefetch(m, pat, start, len, offset + 1, log1)

\* The closure handed to from_fn, run from cursor `offset` with read history
\* `log`: the cursor and history it leaves, and what it returns.
RECURSIVE Closure(_, _, _, _, _, _)
Closure(m, pat, start, len, offset, log) ==
    LET r == read_buf(m, start + offset, Matcher_size(pat))
        log1 == Append(log, ReadRec(start + offset, Matcher_size(pat), r.ok))
    IN  IF ~r.ok
        THEN [offset |-> offset, log |-> log1, ret |-> None]
        ELSE IF Matcher_matches(pat, r.bytes)
        THEN [offset |-> offset + 1, log |-> log1, ret |-> Some(start + (offset + 1) - 1)]
        ELSE IF offset + 1 >= len
        THEN [offset |-> offset + 1, log |-> log1, ret |-> None]
        ELSE Closure(m, pat, start, len, offset + 1, log1)

\* Fuse<FromFn<_>>::next: once the closure has returned None it is not
\* called again.
Fuse_next(m, i, log) ==
    IF i.fused
    THEN [it |-> i, log |-> log, ret |-> None]
    ELSE LET c == Closure(m, i.pat, i.start, i.len, i.offset, log)
         IN  [it  |-> [i EXCEPT !.offset = c.offset, !.fused = ~c.ret.some],
              log |-> c.log,
              ret |-> c.ret]

\* No call of the operation is running.
NoCall == [pc |-> "idle"]

InitFind ==
    /\ mem \in Memories(ScanMemSize)
    /\ cp = NoCall
    /\ rm = NoCall
    /\ mt = NoCall
    /\ rs = NoCall
    /\ ws = NoCall
    /\ reads = <<>>
    /\ \E p \in DynPatterns, start \in 0..MaxStart, len \in 0..MaxLen :
           it = find_pattern(DynMatcher(p), start, len)
    /\ yielded = <<>>
    /\ calls = <<>>

\* Number of trailing None results.
RECURSIVE TrailingNone(_)
TrailingNone(cs) ==
    IF cs = <<>> \/ cs[Len(cs)].some THEN 0
    ELSE 1 + TrailingNone(SubSeq(cs, 1, Len(cs) - 1))

\* The consumer asks the iterator for its next element.
FindNext ==
    /\ TrailingNone(calls) <= MaxExtraCalls
    /\ LET n == Fuse_next(mem, it, reads)
       IN  /\ it' = n.it
           /\ reads' = n.log
           /\ calls' = Append(calls, n.ret)
           /\ yielded' = IF n.ret.some THEN Append(yielded, n.ret.val) ELSE yielded
    /\ UNCHANGED <<mem, cp, rm, mt, rs, ws>>

NextFind == FindNext

SpecFind == InitFind /\ [][NextFind]_vars

(* ------------------------ properties of the scan ---------------------- *)
Last(s) == s[Len(s)]
AllReadsOk == \A i \in DOMAIN reads : reads[i].ok
Count(s, x) == Cardinality({i \in DOMAIN s : s[i] = x})
StrictlyIncreasing(s) == \A i, j \in DOMAIN s : i < j => s[i] < s[j]
\* The addresses of the range the iterator was asked to scan.
ScanRange == {a \in 0..(it.start + it.len) : it.start <= a /\ a < it.start + it.len}
\* The pattern of the iterator matches the bytes starting at address a.
MatchAt(a) ==
    LET r == ReadProcessMemory(mem, a, Matcher_size(it.pat))
    IN  r.ok /\ Matcher_matches(it.pat, r.bytes)
HasWildcard(p) == \E i \in DOMAIN p.elems : p.elems[i].tag = "Wildcard"

\* C1: while every read succeeds, the yielded addresses are strictly
\* increasing, every address of [start, start+len) behind the cursor at which
\* the pattern matches has been yielded exactly once, and a sequence that has
\* ended has its cursor at or past len: every match of the range was yielded
\* exactly once.
C1_MatchesYieldedOnceInOrder ==
    AllReadsOk =>
        /\ StrictlyIncreasing(yielded)
        /\ it.fused => it.offset >= it.len
        /\ \A a \in ScanRange :
               (a < it.start + it.offset /\ MatchAt(a)) => Count(yielded, a) = 1

\* C1 witness: an ended scan, all reads successful, of a two-element pattern
\* with a wildcard that matched at two overlapping addresses of the range.
C1_Witness ==
    /\ it.fused /\ AllReadsOk
    /\ HasWildcard(it.pat) /\ Matcher_size(it.pat) = 2
    /\ \E a \in ScanRange :
           /\ a + 1 \in ScanRange
           /\ Count(yielded, a) = 1 /\ Count(yielded, a + 1) = 1

\* C2: every yielded address lies in [start, start+len).
C2_YieldedInRange ==
    \A i \in DOMAIN yielded : yielded[i] \in ScanRange

\* C3: a failed read is the last read ever issued, the call that observed it
\* returned no element and the sequence has ended; every call made later
\* returns no element either and reads nothing.
C3_FailedReadEndsSequence ==
    /\ \A i \in DOMAIN reads : ~reads[i].ok => i = Len(reads)
    /\ (reads # <<>> /\ ~Last(reads).ok) =>
           /\ it.fused
           /\ calls # <<>> /\ ~Last(calls).some

\* C3 witness: readable offsets were scanned, then a read failed, and further
\* elements were requested after the sequence ended.
C3_Witness ==
    /\ Len(reads) >= 2 /\ ~Last(reads).ok
    /\ yielded # <<>>
    /\ TrailingNone(calls) >= 2

\* C4: no read is issued at an address start+offset with offset >= len.
C4_NoReadAtOrPastLen ==
    \A i \in DOMAIN reads : reads[i].addr < it.start + it.len

(* -------------------------- create_pattern ---------------------------- *)
\* usize arithmetic wraps modulo the word size in a build without overflow
\* checks; the modelled word is WordSize bytes wide, far above every modelled
\* address.
UsizeModulus == ByteRadix ^ WordSize
wrapping_sub(a, b) == (a - b + UsizeModulus) % UsizeModulus

\* The starting pattern size of create_pattern.
StartSize == 3

Budgets == {None} \cup {Some(b) : b \in 0..MaxBudget}

\* An iterator that is not in use.
NoIter == find_pattern(SliceMatcher(<<>>), 0, 0)

\* create_pattern(target, start, len, max) at its entry: size = 3, offset = 0.
\* History: passes counts the scans started, collisions lists the occurrences
\* that made the pattern grow.
create_pattern(target, start, len, max) ==
    [pc |-> "loop", target |-> target, start |-> start, len |-> len, max |-> max,
     size |-> StartSize, offset |-> 0, pat |-> <<>>, done |-> TRUE,
     ret |-> "none", sig |-> <<>>, passes |-> 0, collisions |-> <<>>]

InitCreate ==
    /\ mem \in Memories(MemSize)
    /\ rm = NoCall
    /\ mt = NoCall
    /\ rs = NoCall
    /\ ws = NoCall
    /\ reads = <<>>
    /\ it = NoIter
    /\ yielded = <<>>
    /\ calls = <<>>
    /\ \E target \in 0..MaxTarget, start \in 0..MaxStart, len \in 0..MaxLen,
          max \in Budgets :
           cp = create_pattern(target, start, len, max)

\* The failed read at target, but its error is dropped: the scan starts with
\* the zeroed buffer.
CreateReadFails_ignored ==
    /\ cp.pc = "loop"
    /\ LET r == read_buf(mem, cp.target, cp.size)
           zeroed == [i \in 1..cp.size |-> 0]
       IN  /\ ~r.ok
           /\ reads' = Append(reads, ReadRec(cp.target, cp.size, FALSE))
           /\ cp' = [cp EXCEPT !.pc = "for", !.pat = zeroed, !.done = TRUE,
                                !.passes = cp.passes + 1]
           /\ it' = find_pattern(SliceMatcher(zeroed), cp.start + cp.offset,
                                 wrapping_sub(cp.len, cp.offset))
    /\ yielded' = <<>>
    /\ calls' = <<>>
    /\ UNCHANGED <<mem, rm, mt, rs, ws>>

\* Top of the loop: read `size` bytes at target; on success start the scan of
\* [start+offset, start+len) for them.
\* The read failed: `?` returns the error.
CreateReadFails ==
    /\ cp.pc = "loop"
    /\ LET r == read_buf(mem, cp.target, cp.size)
       IN  /\ ~r.ok
           /\ reads' = Append(reads, ReadRec(cp.target, cp.size, FALSE))
           /\ cp' = [cp EXCEPT !.pc = "return", !.ret = "Err"]
    /\ UNCHANGED <<mem, it, yielded, calls, rm, mt, rs, ws>>

\* The read succeeded and len - offset does not underflow.
CreateStartScan ==
    /\ cp.pc = "loop"
    /\ cp.offset <= cp.len
    /\ LET r == read_buf(mem, cp.target, cp.size)
       IN  /\ r.ok
           /\ reads' = Append(reads, ReadRec(cp.target, cp.size, TRUE))
           /\ cp' = [cp EXCEPT !.pc = "for", !.pat = r.bytes, !.done = TRUE,
                                !.passes = cp.passes + 1]
           /\ it' = find_pattern(SliceMatcher(r.bytes), cp.start + cp.offset,
                                 cp.len - cp.offset)
    /\ yielded' = <<>>
    /\ calls' = <<>>
    /\ UNCHANGED <<mem, rm, mt, rs, ws>>

\* The read succeeded and len - offset underflows: a build with overflow
\* checks panics.
CreateUnderflowPanics ==
    /\ cp.pc = "loop"
    /\ cp.offset > cp.len
    /\ LET r == read_buf(mem, cp.target, cp.size)
       IN  /\ r.ok
           /\ reads' = Append(reads, ReadRec(cp.target, cp.size, TRUE))
           /\ cp' = [cp EXCEPT !.pc = "return", !.pat = r.bytes, !.done = TRUE,
                                !.ret = "panic"]
    /\ UNCHANGED <<mem, it, yielded, calls, rm, mt, rs, ws>>

\* The read succeeded and len - offset underflows: a build without overflow
\* checks scans with the wrapped length.
CreateUnderflowWraps ==
    /\ cp.pc = "loop"
    /\ cp.offset > cp.len
    /\ LET r == read_buf(mem, cp.target, cp.size)
       IN  /\ r.ok
           /\ reads' = Append(reads, ReadRec(cp.target, cp.size, TRUE))
           /\ cp' = [cp EXCEPT !.pc = "for", !.pat = r.bytes, !.done = TRUE,
                                !.passes = cp.passes + 1]
           /\ it' = find_pattern(SliceMatcher(r.bytes), cp.start + cp.offset,
                                 wrapping_sub(cp.len, cp.offset))
    /\ yielded' = <<>>
    /\ calls' = <<>>
    /\ UNCHANGED <<mem, rm, mt, rs, ws>>

\* The budget test, but one byte too lenient.
OverBudget_lenient(max, size) == max.some /\ size > max.val + 1

\* The budget test of a growth step: max is set and size exceeds it.
OverBudget(max, size) == max.some /\ size > max.val

\* The collision test, but only occurrences above the target count.
Collides_above(oc, target) == oc > target

\* The collision test: an occurrence anywhere but at the target.
Collides(oc, target) == oc # target

\* The growth step, but size is left as it is.
Grow_same_size(c, oc) ==
    [c EXCEPT !.offset = oc - c.start, !.done = FALSE,
              !.collisions = Append(c.collisions, oc)]

\* The growth step, but the rescan resumes one past the collision.
Grow_past_collision(c, oc) ==
    [c EXCEPT !.size = c.size + 1, !.offset = oc - c.start + 1, !.done = FALSE,
              !.collisions = Append(c.collisions, oc)]

\* The growth step of a collision at oc: size += 1; offset = oc - start;
\* done = false.
Grow(c, oc) ==
    [c EXCEPT !.size = c.size + 1, !.offset = oc - c.start, !.done = FALSE,
              !.collisions = Append(c.collisions, oc)]

\* One turn of the for loop over the scan: take the next occurrence; a
\* collision grows size, moves offset and leaves the for loop, or returns
\* Ok(None) when over budget; the end of the scan returns the pattern.
CreateForStep ==
    /\ cp.pc = "for"
    /\ LET n == Fuse_next(mem, it, reads)
           oc == n.ret.val
       IN  /\ it' = n.it
           /\ reads' = n.log
           /\ calls' = Append(calls, n.ret)
           /\ yielded' = IF n.ret.some THEN Append(yielded, oc) ELSE yielded
           /\ cp' =
                IF ~n.ret.some
                THEN IF cp.done
                     THEN [cp EXCEPT !.pc = "return", !.ret = "Ok(Some)",
                                     !.sig = DynPattern_from_slice(cp.pat)]
                     ELSE [cp EXCEPT !.pc = "loop"]
                ELSE IF Collides(oc, cp.target)
                THEN LET grown == Grow(cp, oc)
                     IN  IF OverBudget(cp.max, grown.size)
                         THEN [grown EXCEPT !.pc = "return", !.ret = "Ok(None)"]
                         ELSE [grown EXCEPT !.pc = "loop"]
                ELSE cp
    /\ UNCHANGED <<mem, rm, mt, rs, ws>>

NextCreate ==
    \/ CreateReadFails
    \/ CreateStartScan
    \/ CreateUnderflowPanics
    \/ CreateUnderflowWraps
    \/ CreateForStep

SpecCreate == InitCreate /\ [][NextCreate]_vars

(* ------------------------ resolve_multilevel -------------------------- *)
\* The usize held by the bytes b, least significant byte first.
RECURSIVE from_le_bytes(_)
from_le_bytes(b) ==
    IF b = <<>> THEN 0 ELSE b[1] + ByteRadix * from_le_bytes(Tail(b))

\* OwnedProcess::read::<usize>, but the status of ReadProcessMemory is
\* ignored: a failed read hands back the zeroed buffer.
read_unchecked(m, address) ==
    LET r == ReadProcessMemory(m, address, WordSize)
    IN  [ok |-> TRUE, val |-> IF r.ok THEN from_le_bytes(r.bytes) ELSE 0,
         rec |-> ReadRec(address, WordSize, r.ok)]

\* OwnedProcess::read::<usize>: the value at `address`, Err when
\* ReadProcessMemory returns zero.
read(m, address) ==
    LET r == ReadProcessMemory(m, address, WordSize)
    IN  [ok |-> r.ok, val |-> IF r.ok THEN from_le_bytes(r.bytes) ELSE 0,
         rec |-> ReadRec(address, WordSize, r.ok)]

\* The loop body, but the offset is added after the dereference.
deref_then_add(m, base, o) ==
    LET r == read(m, base) IN [r EXCEPT !.val = r.val + o]

\* The loop body of resolve_multilevel: self.read(base + o).
deref(m, base, o) == read(m, base + o)

\* resolve_multilevel(base, offsets) at its entry.
resolve_multilevel(base, offsets) ==
    [pc |-> "for", base |-> base, offsets |-> offsets, ret |-> "none",
     base0 |-> base, offsets0 |-> offsets]

OffsetLists == UNION {[1..n -> 0..MaxOffset] : n \in 0..MaxChain}

InitResolve ==
    /\ mem \in Memories(MemSize)
    /\ reads = <<>>
    /\ it = NoIter
    /\ yielded = <<>>
    /\ calls = <<>>
    /\ cp = NoCall
    /\ mt = NoCall
    /\ rs = NoCall
    /\ ws = NoCall
    /\ \E base \in 0..MaxOffset, offsets \in OffsetLists :
           rm = resolve_multilevel(base, offsets)

\* One turn of the for loop whose read succeeds: the word read is the new base.
ResolveStep ==
    /\ rm.pc = "for" /\ rm.offsets # <<>>
    /\ LET r == deref(mem, rm.base, Head(rm.offsets))
       IN  /\ r.ok
           /\ reads' = Append(reads, r.rec)
           /\ rm' = [rm EXCEPT !.base = r.val, !.offsets = Tail(rm.offsets)]
    /\ UNCHANGED <<mem, it, yielded, calls, cp, mt, rs, ws>>

\* One turn of the for loop whose read fails: `?` returns the error.
ResolveReadFails ==
    /\ rm.pc = "for" /\ rm.offsets # <<>>
    /\ LET r == deref(mem, rm.base, Head(rm.offsets))
       IN  /\ ~r.ok
           /\ reads' = Append(reads, r.rec)
           /\ rm' = [rm EXCEPT !.pc = "return", !.ret = "Err"]
    /\ UNCHANGED <<mem, it, yielded, calls, cp, mt, rs, ws>>

\* The offsets are consumed: Ok(base).
ResolveReturn ==
    /\ rm.pc = "for" /\ rm.offsets = <<>>
    /\ rm' = [rm EXCEPT !.pc = "return", !.ret = "Ok"]
    /\ UNCHANGED <<mem, reads, it, yielded, calls, cp, mt, rs, ws>>

NextResolve == ResolveStep \/ ResolveReadFails \/ ResolveReturn

SpecResolve == InitResolve /\ [][NextResolve]_vars

(* --------------------- properties of the synthesis --------------------- *)
\* The addresses of the range create_pattern was asked to search.
SearchRange == {a \in 0..(cp.start + cp.len) : cp.start <= a /\ a < cp.start + cp.len}
\* The returned signature matches the bytes starting at address a.
SigMatchAt(a) ==
    LET r == ReadProcessMemory(mem, a, DynPattern_size(cp.sig))
    IN  r.ok /\ DynPattern_matches(cp.sig, r.bytes)
\* The bytes b occur at address a.
BytesAt(b, a) ==
    LET r == ReadProcessMemory(mem, a, Len(b))
    IN  r.ok /\ r.bytes = b

\* C5: when every read succeeded and target lies in [start, start+len), a
\* returned signature matches at target and at no other address of the range.
C5_SignatureUniqueInRange ==
    (cp.pc = "return" /\ cp.ret = "Ok(Some)" /\ AllReadsOk /\ cp.target \in SearchRange) =>
        /\ SigMatchAt(cp.target)
        /\ \A a \in SearchRange : a # cp.target => ~SigMatchAt(a)

\* C5 witness: a signature returned after a collision inside the range made
\* the pattern grow and the rescan resume at the collision offset, with every
\* read successful.
C5_Witness ==
    /\ cp.pc = "return" /\ cp.ret = "Ok(Some)" /\ AllReadsOk
    /\ cp.target \in SearchRange
    /\ cp.size > StartSize /\ cp.offset > 0 /\ cp.offset < cp.len

\* C6: without a budget, when the 3 bytes at a target of the range occur at no
\* other address of [start, start+len), the call returns a signature of
\* exactly those 3 bytes, all Exact.
C6_UniqueThreeBytesReturned ==
    LET r == ReadProcessMemory(mem, cp.target, StartSize)
    IN  (/\ cp.pc = "return" /\ ~cp.max.some
         /\ cp.target \in SearchRange
         /\ r.ok
         /\ \A a \in SearchRange : a # cp.target => ~BytesAt(r.bytes, a))
        => (cp.ret = "Ok(Some)" /\ cp.sig = DynPattern_from_slice(r.bytes))

\* C7: with max = Some(m) a returned signature has at most m elements.
C7_SignatureWithinBudget ==
    (cp.pc = "return" /\ cp.ret = "Ok(Some)" /\ cp.max.some) =>
        DynPattern_size(cp.sig) <= cp.max.val

\* C8: once a collision has raised size above max the call has returned
\* Ok(None), and the last read ever issued is the successful scan read that
\* revealed the collision; Ok(None) is returned in no other case.
C8_OverBudgetReturnsNoneAtOnce ==
    /\ (cp.pc # "idle" /\ cp.max.some /\ ~cp.done /\ cp.size > cp.max.val) =>
           (cp.pc = "return" /\ cp.ret = "Ok(None)")
    /\ (cp.pc # "idle" /\ cp.ret = "Ok(None)") =>
           /\ cp.pc = "return" /\ cp.max.some /\ ~cp.done
           /\ cp.size = cp.max.val + 1 \/ (cp.size = StartSize + 1 /\ cp.max.val < StartSize)
           /\ yielded # <<>> /\ Last(yielded) # cp.target
           /\ Last(reads) = ReadRec(Last(yielded), cp.size - 1, TRUE)
           /\ cp.offset = Last(yielded) - cp.start

\* C8 witness: a second scan pass met a collision that raised size above the
\* budget, and the call returned Ok(None).
C8_Witness ==
    /\ cp.pc = "return" /\ cp.ret = "Ok(None)"
    /\ cp.target \in SearchRange
    /\ cp.max.val >= StartSize /\ cp.size > StartSize + 1

(* --------------------- properties of the resolver ---------------------- *)
\* The word stored at address a, least significant byte first; -1 where the
\* word is not wholly mapped.
WordAt(a) ==
    IF a >= 0 /\ a + WordSize <= Len(mem)
    THEN from_le_bytes([i \in 1..WordSize |-> mem[a + i]])
    ELSE -1
\* The base after the first k offsets: the left fold b -> word at b + o.
RECURSIVE FoldBase(_)
FoldBase(k) ==
    IF k = 0 THEN rm.base0 ELSE WordAt(FoldBase(k - 1) + rm.offsets0[k])

\* C9: when every read succeeded, a returned address is the left fold of the
\* offsets with step b -> word stored at b + o, and the reads issued are
\* exactly one word read per offset, in order, each at fold-so-far + offset;
\* an empty offset list returns base and reads nothing.
C9_ResolveIsLeftFold ==
    (rm.pc = "return" /\ AllReadsOk) =>
        /\ rm.ret = "Ok"
        /\ rm.base = FoldBase(Len(rm.offsets0))
        /\ Len(reads) = Len(rm.offsets0)
        /\ \A k \in DOMAIN reads :
               reads[k] = ReadRec(FoldBase(k - 1) + rm.offsets0[k], WordSize, TRUE)
        /\ rm.offsets0 = <<>> => (rm.base = rm.base0 /\ reads = <<>>)

\* C9 witness: two offsets resolved, the second read at an address that the
\* first read produced and that differs from the base handed in.
C9_Witness ==
    /\ rm.pc = "return" /\ rm.ret = "Ok"
    /\ Len(rm.offsets0) = 2 /\ Len(reads) = 2
    /\ rm.offsets0[2] # 0
    /\ FoldBase(1) # rm.base0
    /\ rm.base # FoldBase(1)

\* C10: a failed read is the last read issued, it made the call return the
\* error with the later offsets unread, and a call that returned an address
\* had no failed read.
C10_ResolveFailsAtFirstFailedRead ==
    rm.pc # "idle" =>
        /\ \A k \in DOMAIN reads : ~reads[k].ok =>
               /\ k = Len(reads)
               /\ rm.pc = "return" /\ rm.ret = "Err"
               /\ Len(rm.offsets) = Len(rm.offsets0) - k + 1
        /\ rm.ret = "Ok" => AllReadsOk
        /\ rm.ret = "Err" => (reads # <<>> /\ ~Last(reads).ok)

\* C10 witness: the read for the first of two offsets failed and the call
\* returned the error with the second offset unread.
C10_Witness ==
    /\ rm.pc = "return" /\ rm.ret = "Err"
    /\ Len(rm.offsets0) = 2 /\ Len(reads) = 1 /\ ~reads[1].ok

(* ------------------------ DynPattern::matches ------------------------- *)
\* The buffers handed to matches: up to one byte longer than the longest
\* pattern.
Buffers == UNION {[1..n -> Bytes] : n \in 0..(MaxPatLen + 1)}

\* <DynPattern as Matcher>::matches(seq) about to be called.
matches_call(p, seq) == [pc |-> "call", pat |-> p, seq |-> seq, ret |-> FALSE]

InitMatch ==
    /\ mem = <<>>
    /\ reads = <<>>
    /\ it = NoIter
    /\ yielded = <<>>
    /\ calls = <<>>
    /\ cp = NoCall
    /\ rm = NoCall
    /\ rs = NoCall
    /\ ws = NoCall
    /\ \E p \in DynPatterns \cup {<<>>}, seq \in Buffers : mt = matches_call(p, seq)

\* The call runs: Matcher::matches hands over to DynPattern::matches.
MatchCall ==
    /\ mt.pc = "call"
    /\ mt' = [mt EXCEPT !.pc = "return",
                        !.ret = Matcher_matches(DynMatcher(mt.pat), mt.seq)]
    /\ UNCHANGED <<mem, reads, it, yielded, calls, cp, rm, rs, ws>>

NextMatch == MatchCall

SpecMatch == InitMatch /\ [][NextMatch]_vars

\* C11: for a buffer at least as long as the pattern, matches returns true
\* exactly when every Exact element equals the buffer byte at its index;
\* wildcards and the bytes beyond the pattern play no part.
C11_MatchesIffExactBytesEqual ==
    (mt.pc = "return" /\ Len(mt.seq) >= DynPattern_size(mt.pat)) =>
        (mt.ret <=> \A i \in DOMAIN mt.pat :
                        mt.pat[i].tag = "Exact" => mt.pat[i].byte = mt.seq[i])

\* C11 witness: a match of a pattern holding an Exact and a Wildcard element
\* against a longer buffer.
C11_Witness ==
    /\ mt.pc = "return" /\ mt.ret
    /\ Len(mt.seq) > Len(mt.pat)
    /\ \E i, j \in DOMAIN mt.pat :
           /\ mt.pat[i].tag = "Wildcard" /\ mt.seq[i] # 0
           /\ mt.pat[j].tag = "Exact"

(* ------------------ termination of the synthesis ----------------------- *)
\* The greatest number of scan passes under the budget m: max(1, m - 2).
PassLimit(m) == IF m - 2 > 1 THEN m - 2 ELSE 1
\* A cursor of a scan never passes the mapped bytes by more than one.
CursorLimit == Len(mem) + 2
\* A measure of the work left to a call with a budget: whole passes, then
\* the cursor of the running scan.
Rank ==
    LET left == PassLimit(cp.max.val) - cp.passes
    IN  IF cp.pc = "return" THEN 0
        ELSE IF cp.pc = "loop" THEN left * 2 * CursorLimit
        ELSE (left + 1) * 2 * CursorLimit - 1 - it.offset

\* C12: with max = Some(m) the call starts at most max(1, m-2) scan passes,
\* it is never stuck before it returns, and every step (a read at target, a
\* step of the scan) lowers a non-negative measure, so that the call and each
\* of its scan passes end after finitely many reads.
C12_BudgetBoundsPasses ==
    /\ [](cp.max.some =>
            /\ cp.passes <= PassLimit(cp.max.val)
            /\ Rank >= 0
            /\ it.offset < CursorLimit
            /\ cp.pc = "return" \/ ENABLED NextCreate)
    /\ [][cp.max.some => Rank' < Rank]_vars

\* C12 witness: a call with a budget returned after max(1, m-2) = 2 passes.
C12_Witness ==
    /\ cp.pc = "return" /\ cp.max.some
    /\ cp.passes = PassLimit(cp.max.val) /\ cp.passes >= 2

(* --------------- how the synthesis reaches its result ------------------ *)
\* The scan of the running pass went through its whole range: its cursor
\* reached len with every read of the pass successful.
ScanCompleted == it.offset >= it.len /\ Last(reads).ok

\* C13: a signature is returned only after a last scan that went through the
\* whole remaining range [start+offset, start+len), every occurrence it
\* reported being the target; a scan ended by a failed read does not count.
C13_SignatureOnlyAfterCompleteScan ==
    (cp.pc = "return" /\ cp.ret = "Ok(Some)") =>
        /\ ScanCompleted
        /\ \A i \in DOMAIN yielded : yielded[i] = cp.target

\* C14: every occurrence that made the pattern grow lies in
\* [start, start+len), differs from the target, and the candidate of that
\* pass (the bytes at target, one shorter than the size it led to) matches
\* there; size has grown once per such occurrence.
C14_GrowthOnlyOnCollisionInRange ==
    cp.pc # "idle" =>
        /\ cp.size = StartSize + Len(cp.collisions)
        /\ \A k \in DOMAIN cp.collisions :
               LET oc == cp.collisions[k]
                   r == ReadProcessMemory(mem, cp.target, StartSize + k - 1)
               IN  /\ oc # cp.target
                   /\ r.ok /\ BytesAt(r.bytes, oc)
                   /\ oc \in SearchRange

\* C15: through every scan pass, from its start, with all reads so far
\* successful, the candidate read at target matches at no address of
\* [start, start+offset) other than target.
C15_NoMatchBeforeResumeOffset ==
    (cp.pc = "for" /\ AllReadsOk) =>
        \A a \in cp.start..(cp.start + cp.offset - 1) :
            a # cp.target => ~BytesAt(cp.pat, a)

\* C15 witness: the start of a second pass that resumes past an address which
\* is not the target, all reads successful.
C15_Witness ==
    /\ cp.pc = "for" /\ calls = <<>> /\ AllReadsOk
    /\ cp.passes >= 2 /\ cp.offset > 0 /\ cp.offset < cp.len
    /\ \E a \in cp.start..(cp.start + cp.offset - 1) : a # cp.target

\* C16: a failed read of size bytes at target makes the call return the
\* error in that step, with no scan started for the iteration; the error is
\* returned in no other case, and a call that returned a signature or None
\* had no failed read at target.
C16_TargetReadErrorReturned ==
    /\ [](cp.pc # "idle" =>
            /\ cp.ret = "Err" =>
                   (cp.pc = "return" /\ Last(reads) = ReadRec(cp.target, cp.size, FALSE))
            /\ cp.ret # "Err" =>
                   \A i \in DOMAIN reads : reads[i].addr = cp.target => reads[i].ok)
    /\ [][(cp.pc = "loop" /\ ~ReadProcessMemory(mem, cp.target, cp.size).ok) =>
             /\ cp'.pc = "return" /\ cp'.ret = "Err"
             /\ cp'.passes = cp.passes
             /\ it' = it /\ calls' = calls
             /\ reads' = Append(reads, ReadRec(cp.target, cp.size, FALSE))]_vars

\* C16 witness: the read at target failed in the second iteration, after a
\* collision had grown the pattern.
C16_Witness ==
    /\ cp.pc = "return" /\ cp.ret = "Err"
    /\ cp.passes = 1 /\ cp.size = StartSize + 1

\* C18: in every iteration the resume offset satisfies 0 <= offset <= len, so
\* that neither oc - start nor len - offset underflows.
C18_OffsetWithinLen ==
    cp.pc # "idle" =>
        /\ 0 <= cp.offset /\ cp.offset <= cp.len
        /\ cp.ret # "panic"

\* C17: the reads of a find_pattern sequence are at the consecutive addresses
\* start, start+1, ..., each of pat.size() bytes and none repeated; nothing is
\* read before the first element is asked for, and the last read of a call
\* that returned an element is the read at that element's address.
C17_LazySinglePass ==
    /\ \A i \in DOMAIN reads :
           /\ reads[i].addr = it.start + i - 1
           /\ reads[i].size = Matcher_size(it.pat)
    /\ calls = <<>> => reads = <<>>
    /\ (calls # <<>> /\ Last(calls).some) =>
           /\ Last(reads).addr = Last(calls).val
           /\ Len(reads) = it.offset

\* C17 witness: two elements were returned, the last call returned one, and
\* an offset that did not match was read on the way.
C17_Witness ==
    /\ Len(yielded) >= 2
    /\ Last(calls).some
    /\ Len(reads) > Len(yielded)

(* ------------------------------ read_str ------------------------------ *)
\* The byte values of the memories read_str runs over: the terminator, 'A',
\* and the two bytes of the UTF-8 encoding of U+00E9.
StrBytes == {0, 65, 195, 169}

\* read::<[u8; BUF_SIZE]>(address): one ReadProcessMemory call of BUF_SIZE
\* bytes.
read_array(m, address) == ReadProcessMemory(m, address, BUF_SIZE)

\* buf.iter().position(|b| *b == 0): the 0-based index of the first zero.
position_zero(buf) ==
    IF \E i \in DOMAIN buf : buf[i] = 0
    THEN Some((CHOOSE i \in DOMAIN buf :
                  buf[i] = 0 /\ \A j \in 1..(i - 1) : buf[j] # 0) - 1)
    ELSE None

\* A UTF-8 continuation byte.
Continuation(b) == b >= 128 /\ b <= 191

\* The validation String::from_utf8 performs: well-formed UTF-8 sequences
\* only, without overlong forms, surrogates or code points above U+10FFFF.
RECURSIVE Utf8Valid(_)
Utf8Valid(s) ==
    IF s = <<>> THEN TRUE
    ELSE LET b == s[1]
             n == Len(s)
         IN  IF b < 128 THEN Utf8Valid(SubSeq(s, 2, n))
             ELSE IF b >= 194 /\ b <= 223
             THEN /\ n >= 2
                  /\ Continuation(s[2])
                  /\ Utf8Valid(SubSeq(s, 3, n))
             ELSE IF b >= 224 /\ b <= 239
             THEN /\ n >= 3
                  /\ Continuation(s[2])
                  /\ b = 224 => s[2] >= 160
                  /\ b = 237 => s[2] <= 159
                  /\ Continuation(s[3])
                  /\ Utf8Valid(SubSeq(s, 4, n))
             ELSE IF b >= 240 /\ b <= 244
             THEN /\ n >= 4
                  /\ Continuation(s[2])
                  /\ b = 240 => s[2] >= 144
                  /\ b = 244 => s[2] <= 143
                  /\ Continuation(s[3])
                  /\ Continuation(s[4])
                  /\ Utf8Valid(SubSeq(s, 5, n))
             ELSE FALSE

\* String::from_utf8(out).map_err(|_| MfError::InvalidString): the String is
\* kept as its bytes.
from_utf8(out) ==
    IF Utf8Valid(out)
    THEN [tag |-> "Ok", val |-> out]
    ELSE [tag |-> "Err", val |-> <<>>]

\* read_str(address) at its entry: out empty, offset 0.
read_str(address) ==
    [pc |-> "loop", address |-> address, offset |-> 0, out |-> <<>>,
     ret |-> [tag |-> "none", val |-> <<>>]]

InitReadStr ==
    /\ mem \in UNION {[1..n -> StrBytes] : n \in 0..StrMemSize}
    /\ cp = NoCall
    /\ rm = NoCall
    /\ mt = NoCall
    /\ ws = NoCall
    /\ it = NoIter
    /\ reads = <<>>
    /\ yielded = <<>>
    /\ calls = <<>>
    /\ \E address \in 0..MaxStart : rs = read_str(address)

\* The chunk read failed: `?` returns the error.
ReadStrChunkFails ==
    /\ rs.pc = "loop"
    /\ ~read_array(mem, rs.address + rs.offset).ok
    /\ reads' = Append(reads, ReadRec(rs.address + rs.offset, BUF_SIZE, FALSE))
    /\ rs' = [rs EXCEPT !.pc = "return", !.ret = [tag |-> "Err", val |-> <<>>]]
    /\ UNCHANGED <<mem, it, yielded, calls, cp, rm, mt, ws>>

\* The chunk holds a zero: the bytes before it are appended, the loop is left
\* and the bytes are converted to the String returned.
ReadStrTerminator ==
    /\ rs.pc = "loop"
    /\ LET r == read_array(mem, rs.address + rs.offset)
           i == position_zero(r.bytes)
       IN  /\ r.ok
           /\ i.some
           /\ LET out == rs.out \o SubSeq(r.bytes, 1, i.val)
              IN  rs' = [rs EXCEPT !.pc = "return", !.out = out, !.ret = from_utf8(out)]
    /\ reads' = Append(reads, ReadRec(rs.address + rs.offset, BUF_SIZE, TRUE))
    /\ UNCHANGED <<mem, it, yielded, calls, cp, rm, mt, ws>>

\* The chunk holds no zero: it is appended whole and the next chunk is read.
ReadStrContinue ==
    /\ rs.pc = "loop"
    /\ LET r == read_array(mem, rs.address + rs.offset)
       IN  /\ r.ok
           /\ ~position_zero(r.bytes).some
           /\ rs' = [rs EXCEPT !.out = rs.out \o r.bytes, !.offset = rs.offset + BUF_SIZE]
    /\ reads' = Append(reads, ReadRec(rs.address + rs.offset, BUF_SIZE, TRUE))
    /\ UNCHANGED <<mem, it, yielded, calls, cp, rm, mt, ws>>

NextReadStr == ReadStrChunkFails \/ ReadStrTerminator \/ ReadStrContinue

SpecReadStr == InitReadStr /\ [][NextReadStr]_vars

\* The mapped addresses at or after the address of the call that hold a zero.
Terminators == {z \in rs.address..(Len(mem) - 1) : mem[z + 1] = 0}
\* The bytes of the string at the address of the call, its terminator at z.
StringBefore(z) == SubSeq(mem, rs.address + 1, z)

\* C19: when the bytes from address up to the first zero at or after it are
\* readable and valid UTF-8, read_str returns exactly the bytes before that
\* zero, wherever the zero falls in its 4-byte chunk and however close it is
\* to the end of the readable region.
C19_ReadStrReturnsBytesBeforeTerminator ==
    (rs.pc = "return" /\ Terminators # {}) =>
        LET z == CHOOSE t \in Terminators : \A u \in Terminators : t <= u
        IN  Utf8Valid(StringBefore(z)) =>
                rs.ret = [tag |-> "Ok", val |-> StringBefore(z)]

(* ------------------------------ write_str ----------------------------- *)
\* WriteProcessMemory(addr, buf, size): the write succeeds when the whole
\* area is mapped, and then stores the bytes.
WriteProcessMemory(m, addr, buf) ==
    IF addr + Len(buf) <= Len(m)
    THEN [ok |-> TRUE,
          mem |-> [a \in 1..Len(m) |->
                      IF a > addr /\ a <= addr + Len(buf) THEN buf[a - addr] ELSE m[a]],
          written |-> Len(buf)]
    ELSE [ok |-> FALSE, mem |-> m, written |-> 0]

\* write_buf(address, buf): the bytes of buf.
write_buf(m, address, buf) == WriteProcessMemory(m, address, buf)

\* write(address, 0): the literal is an i32, so size_of::<T>() zero bytes.
write_zero(m, address) == WriteProcessMemory(m, address, [i \in 1..I32Size |-> 0])

\* The texts handed to write_str.
Texts == UNION {[1..n -> Bytes] : n \in 0..MaxText}

\* write_str(address, text) at its entry; mem0 keeps the memory of the entry.
write_str(address, text, m) ==
    [pc |-> "write_buf", address |-> address, text |-> text, wrote |-> 0,
     ret |-> [tag |-> "none", val |-> 0], mem0 |-> m]

InitWriteStr ==
    /\ mem \in Memories(MemSize)
    /\ cp = NoCall
    /\ rm = NoCall
    /\ mt = NoCall
    /\ rs = NoCall
    /\ it = NoIter
    /\ reads = <<>>
    /\ yielded = <<>>
    /\ calls = <<>>
    /\ \E address \in 0..MaxStart, text \in Texts : ws = write_str(address, text, mem)

\* let mut wrote = self.write_buf(address, text.as_bytes())?
WriteStrText ==
    /\ ws.pc = "write_buf"
    /\ LET w == write_buf(mem, ws.address, ws.text)
       IN  /\ w.ok
           /\ mem' = w.mem
           /\ ws' = [ws EXCEPT !.pc = "write", !.wrote = w.written]
    /\ UNCHANGED <<reads, it, yielded, calls, cp, rm, mt, rs>>

\* write_buf failed: `?` returns the error.
WriteStrTextFails ==
    /\ ws.pc = "write_buf"
    /\ ~write_buf(mem, ws.address, ws.text).ok
    /\ ws' = [ws EXCEPT !.pc = "return", !.ret = [tag |-> "Err", val |-> 0]]
    /\ UNCHANGED <<mem, reads, it, yielded, calls, cp, rm, mt, rs>>

\* wrote += self.write(address + wrote, 0)?; Ok(wrote)
WriteStrZero ==
    /\ ws.pc = "write"
    /\ LET w == write_zero(mem, ws.address + ws.wrote)
       IN  /\ w.ok
           /\ mem' = w.mem
           /\ ws' = [ws EXCEPT !.pc = "return", !.wrote = ws.wrote + w.written,
                               !.ret = [tag |-> "Ok", val |-> ws.wrote + w.written]]
    /\ UNCHANGED <<reads, it, yielded, calls, cp, rm, mt, rs>>

\* write failed: `?` returns the error, the text stays written.
WriteStrZeroFails ==
    /\ ws.pc = "write"
    /\ ~write_zero(mem, ws.address + ws.wrote).ok
    /\ ws' = [ws EXCEPT !.pc = "return", !.ret = [tag |-> "Err", val |-> 0]]
    /\ UNCHANGED <<mem, reads, it, yielded, calls, cp, rm, mt, rs>>

NextWriteStr == WriteStrText \/ WriteStrTextFails \/ WriteStrZero \/ WriteStrZeroFails

SpecWriteStr == InitWriteStr /\ [][NextWriteStr]_vars

\* The memory of the entry with the text and one zero byte stored at address.
TextThenZero ==
    [a \in 1..Len(ws.mem0) |->
        IF a > ws.address /\ a <= ws.address + Len(ws.text) THEN ws.text[a - ws.address]
        ELSE IF a = ws.address + Len(ws.text) + 1 THEN 0
        ELSE ws.mem0[a]]

\* C20: a write_str call whose area [address, address+n] is mapped leaves the
\* memory of its entry with the n text bytes and one zero byte stored at
\* address, every other byte unchanged, and returns n+1.
C20_WriteStrWritesTextAndOneZero ==
    (ws.pc = "return" /\ ws.address + Len(ws.text) + 1 <= Len(ws.mem0)) =>
        /\ ws.ret = [tag |-> "Ok", val |-> Len(ws.text) + 1]
        /\ mem = TextThenZero

====
